---- MODULE Spec2Model ----
(***************************************************************************)
(* Model of the GitHub repository search tool:                             *)
(*   src/github_repo_search.py  GitHubRepoSearcher and the command line    *)
(*   src/example_usage.py       programmatic use and the per-string tally  *)
(*                                                                         *)
(* Python strings that the code inspects character by character (the       *)
(* ignore patterns and the exclusion clause built from them) are sequences *)
(* of one-character strings.  Search strings, repository names and printed *)
(* messages are opaque and are TLA+ strings.                               *)
(***************************************************************************)
EXTENDS Integers, Sequences, FiniteSets, TLC

\* ------------------------------------------------------------------ bounds
\* longest repository list the enumeration returns
MaxRepos == 2
\* longest list of search strings
MaxStrings == 3
\* longest search-string list of the two-run specification
MaxRerunStrings == 2
\* longest ignore pattern enumerated exhaustively
MaxPatLen == 3
\* longest list of ignore patterns
MaxPatterns == 2

\* ----------------------------------------------------- Python str methods
\* characters the enumerated ignore patterns are made of
Chars == {" ", "*", ".", "/", "m"}

\* str.isspace for one character
Whitespace == {" "}

RECURSIVE lstrip(_, _)
\* str.lstrip(chars): drop every leading character that is in chars
lstrip(s, chars) ==
    IF s = <<>> \/ Head(s) \notin chars THEN s ELSE lstrip(Tail(s), chars)

RECURSIVE rstrip(_, _)
\* str.rstrip(chars): drop every trailing character that is in chars
rstrip(s, chars) ==
    IF s = <<>> \/ s[Len(s)] \notin chars THEN s
    ELSE rstrip(SubSeq(s, 1, Len(s) - 1), chars)

\* str.strip(): drop leading and trailing whitespace
strip(s) == rstrip(lstrip(s, Whitespace), Whitespace)

\* str.startswith(prefix)
startswith(s, prefix) ==
    Len(s) >= Len(prefix) /\ SubSeq(s, 1, Len(prefix)) = prefix

\* c in s, for a one-character c
contains(s, c) == \E k \in DOMAIN s : s[k] = c

\* the literal ' -extension:' of the f-strings at lines 54 and 57
ExtensionPrefix == <<" ", "-", "e", "x", "t", "e", "n", "s", "i", "o", "n", ":">>

\* the literal ' -path:' of the f-string at line 60
PathPrefix == <<" ", "-", "p", "a", "t", "h", ":">>

\* ------------------------------------------------------- the Query Builder
\* ignore_clause without line 47: the pattern is classified untrimmed
ignore_clause_untrimmed(raw) ==
    IF raw = <<>> THEN <<>>
    ELSE IF startswith(raw, <<"*", ".">>) \/ startswith(raw, <<".">>)
         THEN ExtensionPrefix \o lstrip(raw, {"*", "."})
    ELSE IF ~contains(raw, ".") /\ ~startswith(raw, <<"/">>)
         THEN ExtensionPrefix \o raw
    ELSE PathPrefix \o raw

\* one iteration of the loop of _build_ignore_query: what is appended to
\* ignore_query for one pattern (nothing when the trimmed pattern is empty)
ignore_clause(raw) ==
    LET pattern == strip(raw) IN
    IF pattern = <<>> THEN <<>>
    ELSE IF startswith(pattern, <<"*", ".">>) \/ startswith(pattern, <<".">>)
         THEN ExtensionPrefix \o lstrip(pattern, {"*", "."})
    ELSE IF ~contains(pattern, ".") /\ ~startswith(pattern, <<"/">>)
         THEN ExtensionPrefix \o pattern
    ELSE PathPrefix \o pattern

RECURSIVE build_from(_, _)
\* the for loop of _build_ignore_query, from an accumulated ignore_query
build_from(patterns, acc) ==
    IF patterns = <<>> THEN acc
    ELSE build_from(Tail(patterns), acc \o ignore_clause(Head(patterns)))

\* GitHubRepoSearcher._build_ignore_query on self.ignore_patterns
build_ignore_query(patterns) == build_from(patterns, <<>>)

\* ----------------------------------------------------------- input sets
\* every sequence over S of length at most n
SeqsUpTo(S, n) == UNION {[1..k -> S] : k \in 0..n}

\* the patterns the documentation and the example program name
PatMd == <<"m", "d">>
PatDotCircleci == <<".", "c", "i", "r", "c", "l", "e", "c", "i">>
PatSrcGenerated == <<"s", "r", "c", "/", "g", "e", "n", "e", "r", "a", "t", "e", "d">>
PatStarJson == <<"*", ".", "j", "s", "o", "n">>
PatJson == <<"j", "s", "o", "n">>
PatBlank == <<" ", " ">>
PatPadded == <<" ", "m", "d", " ">>
PatFile == <<"a", ".", "m", "d">>
PatRooted == <<"/", "t", "m", "p">>

\* patterns combined into lists
SamplePatterns ==
    {PatMd, PatDotCircleci, PatSrcGenerated, PatStarJson, PatBlank,
     PatPadded, PatFile, PatRooted, <<>>}

\* the ignore list of example_usage.py
ExampleIgnore == <<PatMd, PatJson, PatDotCircleci>>

\* the ignore lists the Query Builder is applied to: every single pattern
\* over Chars up to MaxPatLen, and every list of sample patterns up to
\* MaxPatterns
QueryInputs ==
    {<<p>> : p \in SeqsUpTo(Chars, MaxPatLen)}
        \cup SeqsUpTo(SamplePatterns, MaxPatterns)
        \cup {ExampleIgnore}

\* -------------------------------------------------------------- the state
VARIABLES
    program,          \* "cli": main of github_repo_search.py; "example": main
                      \* of example_usage.py; "library": a caller of the class
    token,            \* whether a credential was supplied
    ignore_patterns,  \* self.ignore_patterns
    search_strings,   \* the list of search strings
    pc,               \* the position of the single thread of control
    org_answer,       \* what the organization listing answered (kind "none" before)
    repos,            \* repos of search_strings_in_repos
    i,                \* index of the outer loop (repositories)
    j,                \* index of the inner loop (search strings)
    found_strings,    \* found_strings of the current repository
    results,          \* results: repository URL -> set of matched strings
    ignore_query,     \* the exclusion clause of the last query built
    outcome,          \* what the remote search answered to the last call
    returned,         \* what search_string_in_repo returned last
    calls,            \* the queries issued since search_strings_in_repos began
    pauses,           \* the sleeps (seconds) since the last search call
    output,           \* the notable messages printed, in order
    interrupted_at,   \* pc at the operator's interrupt ("none" without one)
    exit_code,        \* process exit status once pc = "exited" (-1 before)
    string_counts,    \* string_counts of example_usage.py
    remote,           \* the answers an unchanged remote has given, by query
    run,              \* which call of search_strings_in_repos is running
    first_results     \* the mapping the first call returned

vars ==
    <<program, token, ignore_patterns, search_strings, pc, org_answer, repos,
      i, j, found_strings, results, ignore_query, outcome, returned, calls,
      pauses, output, interrupted_at, exit_code, string_counts, remote, run,
      first_results>>

\* the search strings of the model
Strings == {"x", "y"}

\* the search strings of the two-run specification, where every distinct
\* query multiplies the remote states by the number of answers
RerunStrings == {"x"}

\* the answers of the remote search to one query: a match count above zero,
\* a match count of zero, GithubException with status 403, with status 422,
\* with any other status, and any other Exception
Outcomes == {"match", "nomatch", "e403", "e422", "eother", "exception"}

\* the answers of the organization listing: a list of count repositories, a
\* GithubException, any other Exception
OrgAnswers ==
    {[kind |-> "ok", count |-> n] : n \in 0..MaxRepos}
        \cup {[kind |-> "GithubException", count |-> 0],
              [kind |-> "Exception", count |-> 0]}

\* the ignore lists of the runs
RunIgnoreLists == {<<>>, ExampleIgnore}

\* the dict {}
EmptyMap == [u \in {} |-> {}]

\* repo.html_url and repo.full_name: repositories are numbered in the order
\* the listing returns them, and each has its own URL and full name
html_url(repo) == repo
full_name(repo) == repo

\* the f-string of line 94: the quoted phrase, the repo scope, the exclusions
query_of(search_string, repo, patterns) ==
    [phrase |-> search_string, repo |-> full_name(repo),
     ignore |-> build_ignore_query(patterns)]

\* -------------------------------------------------- get_organization_repos
\* get_organization_repos with a GithubException left uncaught
get_organization_repos_uncaught(answer) ==
    IF answer.kind = "ok"
    THEN [repos |-> [k \in 1..answer.count |-> k], raised |-> FALSE,
          printed |-> <<"Found repositories">>]
    ELSE [repos |-> <<>>, raised |-> TRUE, printed |-> <<>>]

\* GitHubRepoSearcher.get_organization_repos: the list, or [] after a
\* GithubException; any other exception propagates
get_organization_repos(answer) ==
    IF answer.kind = "ok"
    THEN [repos |-> [k \in 1..answer.count |-> k], raised |-> FALSE,
          printed |-> <<"Found repositories">>]
    ELSE IF answer.kind = "GithubException"
    THEN [repos |-> <<>>, raised |-> FALSE,
          printed |-> <<"Error accessing organization">>]
    ELSE [repos |-> <<>>, raised |-> TRUE, printed |-> <<>>]

\* --------------------------------------------------- search_string_in_repo
\* search_string_in_repo with the except Exception clause of line 113 missing
search_string_in_repo_uncaught(o) ==
    [returned |-> (o = "match"), raised |-> (o = "exception"),
     slept |-> IF o = "e403" THEN <<60>> ELSE <<>>]

\* GitHubRepoSearcher.search_string_in_repo after the remote answered o: the
\* value returned, whether an exception leaves the method, the sleeps made
search_string_in_repo(o) ==
    CASE o = "match"     -> [returned |-> TRUE,  raised |-> FALSE, slept |-> <<>>]
      [] o = "nomatch"   -> [returned |-> FALSE, raised |-> FALSE, slept |-> <<>>]
      [] o = "e403"      -> [returned |-> FALSE, raised |-> FALSE, slept |-> <<60>>]
      [] o = "e422"      -> [returned |-> FALSE, raised |-> FALSE, slept |-> <<>>]
      [] o = "eother"    -> [returned |-> FALSE, raised |-> FALSE, slept |-> <<>>]
      [] o = "exception" -> [returned |-> FALSE, raised |-> FALSE, slept |-> <<>>]

\* ------------------------------------------------- search_strings_in_repos
\* found_strings of one repository carried over to the next
stale_found_strings(previous) == previous

\* line 136: found_strings = set(), whatever it held before
new_found_strings(previous) == {}

\* lines 148-149 without the test: the set is stored even when empty
store_always(map, url, found) ==
    [u \in DOMAIN map \cup {url} |-> IF u = url THEN found ELSE map[u]]

\* lines 148-149: results[repo.html_url] = found_strings, if it is non-empty
store_found(map, url, found) ==
    IF found # {}
    THEN [u \in DOMAIN map \cup {url} |-> IF u = url THEN found ELSE map[u]]
    ELSE map

\* the inner loop repeating the string whose search was rate-limited
retry_after_403(index, o) == IF o = "e403" THEN index ELSE index + 1

\* the inner for loop of line 138 moves to the next string after any answer
next_string(index, o) == index + 1

\* line 146 skipped after a failed search
pace_unless_failed(slept, o) ==
    IF o \in {"match", "nomatch"} THEN Append(slept, 1) ELSE slept

\* line 146: time.sleep(1) after the search, whatever it answered
pace(slept, o) == Append(slept, 1)

\* ------------------------------------------------------------- the top level
\* the handlers of lines 210-214 with the interrupt treated as an error
main_handler_interrupt_fails(exc) ==
    IF exc = "KeyboardInterrupt"
    THEN [printed |-> <<"Search interrupted by user.">>, code |-> 1]
    ELSE [printed |-> <<"An error occurred">>, code |-> 1]

\* lines 210-214: what main prints and the exit status, by exception
main_handler(exc) ==
    IF exc = "KeyboardInterrupt"
    THEN [printed |-> <<"Search interrupted by user.">>, code |-> 0]
    ELSE [printed |-> <<"An error occurred">>, code |-> 1]

\* ------------------------------------------------------------- the tally
\* line 57 overwriting the count instead of incrementing it
count_overwrite(counts, string) ==
    [t \in DOMAIN counts \cup {string} |-> IF t = string THEN 1 ELSE counts[t]]

\* line 57: string_counts[string] = string_counts.get(string, 0) + 1
count_string(counts, string) ==
    [t \in DOMAIN counts \cup {string} |->
        IF t = string
        THEN (IF string \in DOMAIN counts THEN counts[string] ELSE 0) + 1
        ELSE counts[t]]

RECURSIVE tally_from(_, _, _)
\* the loops of lines 55-57 over the (repository, string) pairs left
tally_from(map, pairs, counts) ==
    IF pairs = {} THEN counts
    ELSE LET p == CHOOSE q \in pairs : TRUE
         IN tally_from(map, pairs \ {p}, count_string(counts, p[2]))

\* lines 54-57: string_counts of a result mapping
tally(map) ==
    tally_from(map, {<<u, s>> \in (DOMAIN map) \X Strings : s \in map[u]}, EmptyMap)

\* ------------------------------------------------------------ the messages
MsgTokenRequired == "Error: GitHub token is required."
MsgSetToken == "Please set the GITHUB_TOKEN environment variable"
MsgNoRepositories == "No repositories found containing the specified strings."
MsgSearchResults == "SEARCH RESULTS"
MsgSummary == "SUMMARY BY STRING"
MsgInterrupted == "Search interrupted by user."
MsgTraceback == "Traceback (most recent call last)"

\* whether message m was printed
Printed(m) == \E k \in DOMAIN output : output[k] = m

\* the positions inside the try block of main (lines 205-208)
InTry == {"enumerate", "repo", "string", "handle", "pace", "display"}

\* the positions of the enumeration and of the search loop
InSearch == {"enumerate", "repo", "string", "handle", "pace"}

\* ------------------------------------------------------------ initial states
\* the values every specification starts from
Fresh ==
    /\ org_answer = [kind |-> "none", count |-> 0]
    /\ repos = <<>>
    /\ i = 0
    /\ j = 0
    /\ found_strings = {}
    /\ results = EmptyMap
    /\ ignore_query = <<>>
    /\ outcome = "none"
    /\ returned = FALSE
    /\ calls = <<>>
    /\ pauses = <<>>
    /\ output = <<>>
    /\ interrupted_at = "none"
    /\ exit_code = -1
    /\ string_counts = EmptyMap
    /\ remote = EmptyMap
    /\ run = 1
    /\ first_results = EmptyMap

\* a run of either program: the command line takes one or more strings
Init ==
    /\ program \in {"cli", "example"}
    /\ token \in BOOLEAN
    /\ ignore_patterns \in RunIgnoreLists
    /\ search_strings \in SeqsUpTo(Strings, MaxStrings) \ {<<>>}
    /\ pc = "main"
    /\ Fresh

\* ------------------------------------------------------------------- exits
\* an exception leaves the code at the top level: main of the command line
\* handles it (lines 210-214) inside its try block; elsewhere, and in
\* example_usage.py, the interpreter prints a traceback and the status is
\* not zero (1, or 130 for an interrupt on recent interpreters)
Raise(exc) ==
    /\ pc' = "exited"
    /\ IF program = "cli" /\ pc \in InTry
       THEN /\ output' = output \o main_handler(exc).printed
            /\ exit_code' = main_handler(exc).code
       ELSE /\ output' = Append(output, MsgTraceback)
            /\ exit_code' \in (IF exc = "KeyboardInterrupt" THEN {1, 130} ELSE {1})

\* --------------------------------------------------------------- the actions
\* lines 188-193 of github_repo_search.py, lines 14-17 of example_usage.py
CheckToken ==
    /\ pc = "main"
    /\ IF token
       THEN /\ pc' = "enumerate"
            /\ UNCHANGED <<output, exit_code>>
       ELSE /\ pc' = "exited"
            /\ output' = Append(output,
                   IF program = "cli" THEN MsgTokenRequired ELSE MsgSetToken)
            /\ exit_code' = IF program = "cli" THEN 1 ELSE 0
    /\ UNCHANGED <<program, token, ignore_patterns, search_strings, org_answer,
                   repos, i, j, found_strings, results, ignore_query, outcome,
                   returned, calls, pauses, interrupted_at, string_counts,
                   remote, run, first_results>>

\* lines 127-131: the enumeration answered `answer`
Enumerate(answer) ==
    LET got == get_organization_repos(answer) IN
    /\ org_answer' = answer
    /\ calls' = <<>>
    /\ pauses' = <<>>
    /\ IF got.raised
       THEN /\ Raise("Exception")
            /\ UNCHANGED <<repos, results, i>>
       ELSE /\ repos' = got.repos
            /\ output' = output \o got.printed
            /\ results' = EmptyMap
            /\ IF got.repos = <<>>
               THEN pc' = "display" /\ i' = i
               ELSE pc' = "repo" /\ i' = 1
            /\ UNCHANGED exit_code
    /\ UNCHANGED <<program, token, ignore_patterns, search_strings, j,
                   found_strings, ignore_query, outcome, returned,
                   interrupted_at, string_counts, run, first_results>>

\* search_strings_in_repos begins: the organization listing answers
GetOrganizationRepos ==
    /\ pc = "enumerate"
    /\ \E answer \in OrgAnswers : Enumerate(answer)
    /\ UNCHANGED remote

\* lines 133-136: the outer loop takes the next repository
BeginRepo ==
    /\ pc = "repo"
    /\ i <= Len(repos)
    /\ found_strings' = new_found_strings(found_strings)
    /\ j' = 1
    /\ pc' = "string"
    /\ UNCHANGED <<program, token, ignore_patterns, search_strings, org_answer,
                   repos, i, results, ignore_query, outcome, returned, calls,
                   pauses, output, interrupted_at, exit_code, string_counts,
                   remote, run, first_results>>

\* line 154: the outer loop is over, results is returned
ReturnResults ==
    /\ pc = "repo"
    /\ i > Len(repos)
    /\ pc' = "display"
    /\ UNCHANGED <<program, token, ignore_patterns, search_strings, org_answer,
                   repos, i, j, found_strings, results, ignore_query, outcome,
                   returned, calls, pauses, output, interrupted_at, exit_code,
                   string_counts, remote, run, first_results>>

\* lines 93-95: the query is built and issued, and the remote answers o
IssueSearch(o) ==
    /\ pc = "string"
    /\ j <= Len(search_strings)
    /\ ignore_query' = build_ignore_query(ignore_patterns)
    /\ calls' = Append(calls, query_of(search_strings[j], repos[i], ignore_patterns))
    /\ outcome' = o
    /\ pauses' = <<>>
    /\ pc' = "handle"
    /\ UNCHANGED <<program, token, ignore_patterns, search_strings, org_answer,
                   repos, i, j, found_strings, results, returned, output,
                   interrupted_at, exit_code, string_counts, run, first_results>>

\* a search call; the remote may answer anything
SearchCode ==
    /\ \E o \in Outcomes : IssueSearch(o)
    /\ UNCHANGED remote

\* lines 98-115 and 141-143: search_string_in_repo returns (after its
\* cooldown, if any) and the string is added to found_strings if it is true
HandleResult ==
    LET got == search_string_in_repo(outcome) IN
    /\ pc = "handle"
    /\ pauses' = pauses \o got.slept
    /\ IF got.raised
       THEN /\ Raise("Exception")
            /\ UNCHANGED <<returned, found_strings>>
       ELSE /\ returned' = got.returned
            /\ found_strings' = IF got.returned
                                THEN found_strings \cup {search_strings[j]}
                                ELSE found_strings
            /\ pc' = "pace"
            /\ UNCHANGED <<output, exit_code>>
    /\ UNCHANGED <<program, token, ignore_patterns, search_strings, org_answer,
                   repos, i, j, results, ignore_query, outcome, calls,
                   interrupted_at, string_counts, remote, run, first_results>>

\* line 146 and the loop of line 138: the pacing delay, then the next string
Pace ==
    /\ pc = "pace"
    /\ pauses' = pace(pauses, outcome)
    /\ j' = next_string(j, outcome)
    /\ pc' = "string"
    /\ UNCHANGED <<program, token, ignore_patterns, search_strings, org_answer,
                   repos, i, found_strings, results, ignore_query, outcome,
                   returned, calls, output, interrupted_at, exit_code,
                   string_counts, remote, run, first_results>>

\* lines 148-152: the inner loop is over, the repository's set is stored
EndRepo ==
    /\ pc = "string"
    /\ j > Len(search_strings)
    /\ results' = store_found(results, html_url(repos[i]), found_strings)
    /\ i' = i + 1
    /\ pc' = "repo"
    /\ UNCHANGED <<program, token, ignore_patterns, search_strings, org_answer,
                   repos, j, found_strings, ignore_query, outcome, returned,
                   calls, pauses, output, interrupted_at, exit_code,
                   string_counts, remote, run, first_results>>

\* lines 156-175: display_results; then main of the command line returns
DisplayResults ==
    /\ pc = "display"
    /\ program \in {"cli", "example"}
    /\ output' = Append(output,
           IF DOMAIN results = {} THEN MsgNoRepositories ELSE MsgSearchResults)
    /\ IF program = "cli"
       THEN pc' = "exited" /\ exit_code' = 0
       ELSE pc' = "tally" /\ exit_code' = exit_code
    /\ UNCHANGED <<program, token, ignore_patterns, search_strings, org_answer,
                   repos, i, j, found_strings, results, ignore_query, outcome,
                   returned, calls, pauses, interrupted_at, string_counts,
                   remote, run, first_results>>

\* lines 48-60 of example_usage.py: the summary by string, then main returns
Tally ==
    /\ pc = "tally"
    /\ IF DOMAIN results # {}
       THEN /\ string_counts' = tally(results)
            /\ output' = Append(output, MsgSummary)
       ELSE UNCHANGED <<string_counts, output>>
    /\ pc' = "exited"
    /\ exit_code' = 0
    /\ UNCHANGED <<program, token, ignore_patterns, search_strings, org_answer,
                   repos, i, j, found_strings, results, ignore_query, outcome,
                   returned, calls, pauses, interrupted_at, remote, run,
                   first_results>>

\* the operator interrupts the run: KeyboardInterrupt is raised wherever the
\* program is; no except clause below the top level catches it
Interrupt ==
    /\ pc # "exited"
    /\ interrupted_at' = pc
    /\ Raise("KeyboardInterrupt")
    /\ UNCHANGED <<program, token, ignore_patterns, search_strings, org_answer,
                   repos, i, j, found_strings, results, ignore_query, outcome,
                   returned, calls, pauses, string_counts, remote, run,
                   first_results>>

Next ==
    \/ CheckToken
    \/ GetOrganizationRepos
    \/ BeginRepo
    \/ ReturnResults
    \/ SearchCode
    \/ HandleResult
    \/ Pace
    \/ EndRepo
    \/ DisplayResults
    \/ Tally
    \/ Interrupt

Spec == Init /\ [][Next]_vars

\* ------------------------------------------- the Query Builder on its own
\* a searcher constructed with any of the ignore lists
InitQuery ==
    /\ program = "library"
    /\ token = TRUE
    /\ ignore_patterns \in QueryInputs
    /\ search_strings = <<>>
    /\ pc = "query"
    /\ Fresh

\* _build_ignore_query is called on the searcher
BuildIgnoreQuery ==
    /\ pc = "query"
    /\ ignore_query' = build_ignore_query(ignore_patterns)
    /\ pc' = "built"
    /\ UNCHANGED <<program, token, ignore_patterns, search_strings, org_answer,
                   repos, i, j, found_strings, results, outcome, returned,
                   calls, pauses, output, interrupted_at, exit_code,
                   string_counts, remote, run, first_results>>

NextQuery == BuildIgnoreQuery

SpecQuery == InitQuery /\ [][NextQuery]_vars

\* ------------------------- two searches against an unchanged remote state
\* a caller holding a searcher calls search_strings_in_repos
InitRerun ==
    /\ program = "library"
    /\ token = TRUE
    /\ ignore_patterns \in RunIgnoreLists
    /\ search_strings \in SeqsUpTo(RerunStrings, MaxRerunStrings)
    /\ pc = "enumerate"
    /\ Fresh

\* the remote state after it answered o to query q
answered(q, o) ==
    [k \in DOMAIN remote \cup {q} |-> IF k = q THEN o ELSE remote[k]]

\* the organization listing answers; in the second run, as in the first
GetOrganizationReposUnchanged ==
    /\ pc = "enumerate"
    /\ \E answer \in OrgAnswers :
          /\ run = 2 => answer = org_answer
          /\ Enumerate(answer)
    /\ UNCHANGED remote

\* a search call; the remote answers a query it has seen as it did before
SearchCodeUnchanged ==
    \E o \in Outcomes :
        /\ IssueSearch(o)
        /\ LET q == query_of(search_strings[j], repos[i], ignore_patterns)
           IN /\ q \in DOMAIN remote => o = remote[q]
              /\ remote' = answered(q, o)

\* the first call returned its mapping; the caller calls the method again
SecondRun ==
    /\ program = "library"
    /\ pc = "display"
    /\ run = 1
    /\ first_results' = results
    /\ run' = 2
    /\ pc' = "enumerate"
    /\ UNCHANGED <<program, token, ignore_patterns, search_strings, org_answer,
                   repos, i, j, found_strings, results, ignore_query, outcome,
                   returned, calls, pauses, output, interrupted_at, exit_code,
                   string_counts, remote>>

NextRerun ==
    \/ GetOrganizationReposUnchanged
    \/ BeginRepo
    \/ ReturnResults
    \/ SearchCodeUnchanged
    \/ HandleResult
    \/ Pace
    \/ EndRepo
    \/ SecondRun

SpecRerun == InitRerun /\ [][NextRerun]_vars

\* ================================================================== claims
\* expression helpers of the claims
Min(S) == CHOOSE a \in S : \A b \in S : a <= b
Max(S) == CHOOSE a \in S : \A b \in S : a >= b
Last(q) == q[Len(q)]

\* the repository and the string of the k-th search of a run that issues one
\* search per (repository, string) pair, repository-major, strings in order
PairRepo(k) == repos[((k - 1) \div Len(search_strings)) + 1]
PairString(k) == search_strings[((k - 1) % Len(search_strings)) + 1]

\* how many searches have been issued when the run is at its position
IssuedAt ==
    CASE pc = "repo" -> (i - 1) * Len(search_strings)
      [] pc = "string" -> (i - 1) * Len(search_strings) + (j - 1)
      [] pc \in {"handle", "pace"} -> (i - 1) * Len(search_strings) + j
      [] OTHER -> Len(repos) * Len(search_strings)

\* the run went through the whole search and was not interrupted
Completed ==
    /\ interrupted_at = "none"
    /\ org_answer.kind \in {"ok", "GithubException"}
    /\ pc \in {"display", "tally", "exited"}

\* ---- C1
\* C1: a repository URL is a key of results if and only if at least one
\* string matched in that repository: no key maps to an empty set, and when
\* the inner loop of a repository ends, its URL is a key exactly if its
\* found_strings is non-empty (and then maps to it); keys are never dropped.
C1_KeyIffMatched ==
    /\ [](\A u \in DOMAIN results : results[u] # {})
    /\ [][(pc = "string" /\ pc' = "repo") =>
             /\ (html_url(repos[i]) \in DOMAIN results') <=> (found_strings # {})
             /\ found_strings # {} => results'[html_url(repos[i])] = found_strings
             /\ \A u \in DOMAIN results : u \in DOMAIN results' /\ results'[u] = results[u]
             /\ DOMAIN results' \subseteq DOMAIN results \cup {html_url(repos[i])}]_vars

\* C1 witness: the first repository matched nothing and has no key, the
\* second matched and has one, and the mapping is returned
C1_Witness ==
    /\ pc = "display"
    /\ Len(repos) = 2
    /\ DOMAIN results = {html_url(2)}
    /\ results[html_url(2)] = {"x", "y"}

C3_FailuresAreNegative ==
    /\ pc = "pace" => (returned <=> outcome = "match")
    /\ pc = "pace" /\ outcome \in {"e403", "e422", "eother", "exception"}
           => ~returned
    /\ calls # <<>> /\ interrupted_at = "none" /\ program \in {"cli", "example"}
           => /\ ~Printed(MsgTraceback)
              /\ \A k \in DOMAIN output : output[k] \notin {"An error occurred"}
              /\ pc = "exited" =>
                    /\ exit_code = 0
                    /\ Printed(MsgNoRepositories) \/ Printed(MsgSearchResults)

\* C3 witness: the last search failed with an exception that is no
\* GithubException, and the run ended normally with its report
C3_Witness ==
    /\ pc = "exited"
    /\ program = "cli"
    /\ outcome = "exception"
    /\ interrupted_at = "none"
    /\ exit_code = 0
    /\ Printed(MsgSearchResults)

\* ---- C4
\* the pattern without its leading and trailing blanks
Trimmed(p) ==
    LET keep == {k \in DOMAIN p : p[k] # " "}
    IN IF keep = {} THEN <<>> ELSE SubSeq(p, Min(keep), Max(keep))

\* the pattern from its first character that is neither * nor .
WithoutLeadingStarsAndDots(p) ==
    LET keep == {k \in DOMAIN p : p[k] \notin {"*", "."}}
    IN IF keep = {} THEN <<>> ELSE SubSeq(p, Min(keep), Len(p))

\* the clause the claim gives a pattern
ClaimedClause(p) ==
    LET t == Trimmed(p)
        dotted == \E k \in DOMAIN t : t[k] = "."
    IN IF t = <<>> THEN <<>>
       ELSE IF t[1] = "." \/ (Len(t) >= 2 /\ t[1] = "*" /\ t[2] = ".")
            THEN ExtensionPrefix \o WithoutLeadingStarsAndDots(t)
       ELSE IF ~dotted /\ t[1] # "/"
            THEN ExtensionPrefix \o t
       ELSE PathPrefix \o t

RECURSIVE ClaimedQuery(_)
\* the clauses of a list of patterns, one after the other in input order
ClaimedQuery(ps) ==
    IF ps = <<>> THEN <<>>
    ELSE ClaimedQuery(SubSeq(ps, 1, Len(ps) - 1)) \o ClaimedClause(Last(ps))

C5_SrcGeneratedIsPath ==
    pc = "built" /\ ignore_patterns = <<PatSrcGenerated>>
        => ignore_query = PathPrefix \o PatSrcGenerated

\* ---- C6
\* C6: a second search with the same strings and ignore patterns against an
\* unchanged remote returns the mapping the first returned.
C6_SecondRunSameMapping ==
    run = 2 /\ pc = "display" => results = first_results

\* C6 witness: the second run returned a mapping with a key for the second
\* repository only
C6_Witness ==
    /\ run = 2
    /\ pc = "display"
    /\ Len(repos) = 2
    /\ Len(search_strings) = 2
    /\ DOMAIN results = {html_url(2)}
    /\ DOMAIN first_results = {html_url(2)}

\* ---- C7
\* C7: the tally of the summary pass gives each string the number of
\* repository keys whose set contains it, and has no entry for a string
\* that is in no set.
C7_TallyCountsKeys ==
    Printed(MsgSummary) =>
        /\ DOMAIN string_counts = UNION {results[u] : u \in DOMAIN results}
        /\ \A s \in DOMAIN string_counts :
              string_counts[s] = Cardinality({u \in DOMAIN results : s \in results[u]})

\* C7 witness: {repo 1: {x}, repo 2: {x, y}} gives {x: 2, y: 1}
C7_Witness ==
    /\ Printed(MsgSummary)
    /\ DOMAIN results = {html_url(1), html_url(2)}
    /\ results[html_url(1)] = {"x"}
    /\ results[html_url(2)] = {"x", "y"}
    /\ string_counts = [s \in {"x", "y"} |-> IF s = "x" THEN 2 ELSE 1]

\* ---- C8
\* the enumeration yielded no repository: an empty listing or a failed access
NoRepositories ==
    \/ org_answer.kind = "GithubException"
    \/ org_answer.kind = "ok" /\ org_answer.count = 0

\* C8: with zero repositories, also after a failed access to the
\* organization, the run is not aborted: the repository list and the mapping
\* are empty, no search call or pause is made, the 'No repositories found'
\* message is printed and no tally is made.
C8_NoRepositoriesNoSearch ==
    NoRepositories =>
        /\ repos = <<>>
        /\ results = EmptyMap
        /\ calls = <<>>
        /\ pauses = <<>>
        /\ string_counts = EmptyMap
        /\ ~Printed(MsgSummary)
        /\ ~Printed(MsgSearchResults)
        /\ interrupted_at = "none" =>
              /\ pc \in {"display", "tally", "exited"}
              /\ \A k \in DOMAIN output :
                    output[k] \notin {MsgTraceback, "An error occurred"}
              /\ pc \in {"tally", "exited"} => Printed(MsgNoRepositories)
              /\ pc = "exited" => exit_code = 0

\* C8 witness: the access to the organization failed and the example
\* program ended after the 'No repositories found' message
C8_Witness ==
    /\ org_answer.kind = "GithubException"
    /\ program = "example"
    /\ pc = "exited"
    /\ exit_code = 0
    /\ Last(output) = MsgNoRepositories

\* ---- C9
\* C9: the exit status of the command line is 0 after a normal completion
\* and after an interrupt during enumeration or search (the notice is
\* printed, no results are reported); it is not 0 when the credential is
\* missing (before any enumeration or search) and after an unhandled error.
C9_ExitStatus ==
    program = "cli" /\ pc = "exited" =>
        /\ ~token => /\ exit_code # 0
                     /\ org_answer.kind = "none"
                     /\ calls = <<>>
                     /\ interrupted_at = "none" => output = <<MsgTokenRequired>>
        /\ interrupted_at \in InSearch =>
                     /\ exit_code = 0
                     /\ Last(output) = MsgInterrupted
                     /\ ~Printed(MsgSearchResults)
                     /\ ~Printed(MsgNoRepositories)
        /\ token /\ interrupted_at = "none" =>
                     /\ org_answer.kind = "Exception" => exit_code # 0
                     /\ org_answer.kind # "Exception" =>
                           /\ exit_code = 0
                           /\ Printed(MsgSearchResults) \/ Printed(MsgNoRepositories)

\* C9 witness: the command line was interrupted during the pacing delay
\* after a match and exited with status 0
C9_Witness ==
    /\ program = "cli"
    /\ pc = "exited"
    /\ interrupted_at = "pace"
    /\ found_strings # {}
    /\ exit_code = 0

\* ---- C10
\* C10: after every search call the pacing delay of one second happens
\* before the next call and before the mapping is returned, whatever the
\* answer; the cooldown of sixty seconds happens before it exactly when the
\* answer was a 403.
C10_PacingAfterEveryCall ==
    /\ pc = "pace" => pauses = (IF outcome = "e403" THEN <<60>> ELSE <<>>)
    /\ calls # <<>> /\ (pc \in {"string", "repo", "display", "tally"} \/ Completed)
           => pauses = (IF outcome = "e403" THEN <<60, 1>> ELSE <<1>>)

\* C10 witness: the last search of the run was answered 422; only the
\* pacing delay was made before the mapping was returned
C10_Witness ==
    /\ pc = "display"
    /\ calls # <<>>
    /\ outcome = "e422"
    /\ pauses = <<1>>

====
